---- MODULE Spec2Model ----
(***************************************************************************)
(* Model of the client-side task lifecycle of private-avatar.              *)
(*                                                                         *)
(* Part 1: the useIsWorking hook (the "TaskOrchestrator"): startTask,      *)
(* startPolling, stopPolling (= cleanupPolling), resetState, the grace     *)
(* setTimeout, the polling setInterval, the safety setTimeout and the      *)
(* status checks and start POSTs in flight.                                *)
(*                                                                         *)
(* Part 2: the useApiWithRetry hook (the "ResilientRequestExecutor"):      *)
(* executeRequest with its throttle and dedup checks, its retries and the  *)
(* network calls in flight, and the debounced variants with their timers.  *)
(*                                                                         *)
(* Part 3: the useDownloadProgress hook: downloadFileWithProgress with its *)
(* URL resolution, its abort timer, the response and its headers, the      *)
(* chunks read, their assembly and the save step; overlapping calls with   *)
(* small bodies (DownloadSpec), and one call at a time with every header   *)
(* and larger bodies (TransferSpec).                                       *)
(*                                                                         *)
(* The hooks share no state; each has its own specifications and keeps    *)
(* the variables of the others unchanged.                                  *)
(*                                                                         *)
(* Time is discrete, one unit = TimeUnit milliseconds.  A timer holds the  *)
(* time left until it is due; a due timer fires before time advances       *)
(* further.  Timers that are due at the same instant, and responses,       *)
(* are handled in any order (the JavaScript event loop runs one callback   *)
(* at a time, so every action below is atomic).                            *)
(***************************************************************************)
EXTENDS Integers, FiniteSets, Sequences, Bags, TLC

----------------------------------------------------------------------------
(* Bounds of the model *)

\* effective startPolling executions (each creates one grace timer)
MaxLoops == 2
\* status requests outstanding at the same time (bounds the response latency)
MaxInflight == 2
\* the caller makes its calls, and the start POSTs are answered, within this
\* many time units of timer time
MaxUserTime == 3
\* executeRequest call chains (a first attempt and its retries) active at the
\* same time
MaxCalls == 2
\* the maxRetries option ranges over 0..MaxRetriesOption
MaxRetriesOption == 3
\* the retryDelay and debounceTime options range over 1..MaxDelay time units
MaxDelay == 2
\* the count of superseded debounced calls per key saturates at MaxDropped
MaxDropped == 1
\* the maxRetries option ranges over 0..MaxDebounceRetries where the debounced
\* variants are exercised
MaxDebounceRetries == 1
\* downloadFileWithProgress calls in progress at the same time
MaxDownloads == 2
\* overlapping downloads: the declared content-length ranges over 0..MaxTotal
\* bytes (0: header absent)
MaxTotal == 1
\* overlapping downloads: a chunk holds 1..MaxChunk bytes
MaxChunk == 1
\* overlapping downloads: a response body delivers at most MaxReceived bytes
MaxReceived == 2
\* one download at a time: the declared content-length ranges over 0..MaxBody
\* bytes, and a response body delivers at most MaxBody bytes
MaxBody == 4
\* one download at a time: a chunk holds 1..MaxPiece bytes
MaxPiece == 2

----------------------------------------------------------------------------
(* Program constants, in milliseconds *)

GraceDelayMs == 1000
\* one time unit of the model is the shortest of the hook's delays
TimeUnit == GraceDelayMs
PollIntervalMs == 2000
SafetyTimeoutMs == 5 * 60 * 1000

GraceDelay == GraceDelayMs \div TimeUnit
PollInterval == PollIntervalMs \div TimeUnit
SafetyTimeout == SafetyTimeoutMs \div TimeUnit

\* defaults of the useApiWithRetry options
DefaultMaxRetries == 3
DefaultRetryDelayMs == 1000
DefaultDebounceTimeMs == 1000
\* one time unit of Part 2 is half the default delay
ApiTimeUnit == DefaultRetryDelayMs \div 2
DefaultRetryDelay == DefaultRetryDelayMs \div ApiTimeUnit
DefaultDebounceTime == DefaultDebounceTimeMs \div ApiTimeUnit

\* the abort deadline of downloadFileWithProgress
AbortDeadlineMs == 180000
\* one time unit of Part 3 is half the deadline
DownloadTimeUnit == AbortDeadlineMs \div 2
AbortDeadline == AbortDeadlineMs \div DownloadTimeUnit

\* a timer that does not exist, was cleared, or is spent
NoTimer == 0 - 1

Loops == 1..MaxLoops

VARIABLES
  \* React state of the hook (taskMessage and error: FALSE for null)
  isWorking, isLoading, taskMessage, error,
  \* refs: pollingIntervalRef is 0 for null, else the id of the interval
  pollingIntervalRef, completionCallbackFiredRef, isPollingRef,
  \* timers of the JavaScript runtime, one of each kind per startPolling
  \* execution l: time left, or NoTimer
  grace, interval, safety,
  \* number of startPolling executions that passed the guard so far
  nLoops,
  \* start POSTs awaited, status requests outstanding (per loop)
  posts, checks,
  \* time the timers have counted so far, saturating at MaxUserTime
  uclock,
  \* the status endpoint has settled: every answer from now on is is_working = false
  settled,
  \* ---- history variables (observations, not program state) ----
  \* the caller's view of the cycle: "idle", "starting" (a start POST is awaited),
  \* "started" (startTask returned true), "failed" (it returned false),
  \* "polling" (startPolling was called directly), "cancelled" (stopPolling,
  \* resetState or unmount, and no startTask/startPolling since)
  phase,
  \* onComplete invocations since the guard flag was last reset, saturating at 2
  firedInCycle,
  \* the first status request of the latest loop (the one the grace callback
  \* issues): "pending" while it is outstanding, "pending2" while it is
  \* outstanding and a later request of that loop has been issued, else "none"
  firstLog,
  \* the last step, where startTask returned in it ("startAnswer": the value
  \* returned and whether onError was invoked), a status request failed
  \* ("statusFail"), or the caller called startPolling or resetState
  last,
  \* ---- Part 2: useApiWithRetry ----
  \* the options of the hook, delays in time units
  maxRetries, retryDelay, debounceTime,
  \* React state of the hook (apiError: FALSE for null)
  apiIsLoading, apiError,
  \* per key: Date.now() - lastRequestTimes.current[key], saturating at
  \* debounceTime (a key never issued reads as saturated)
  sinceLastRequest,
  \* per key: pendingRequests.current[key]
  pendingRequests,
  \* the executeRequest call chains that passed the checks: per slot the key,
  \* the retryCount of the current attempt, "inflight" (network call awaited)
  \* or "delay" (retry delay awaited) with the time left; and, observed, the
  \* network calls sent and the attempts failed so far
  calls,
  \* per key: the setTimeout debounceTimers.current[key] names (time left, or
  \* NoTimer when none is pending) with the arguments its callback will pass to
  \* executeRequest; and, observed, the promises debounce returned whose timer
  \* was cleared by a later call
  debounceTimers,
  \* the last step of Part 2, what executeRequest returned in it and whether
  \* that resolved the promise of a debounced call
  apiLast,
  \* ---- Part 3: useDownloadProgress ----
  \* the hook: its React state isDownloading and progress (its error state is
  \* never set and stays null); calls: the bag of downloadFileWithProgress calls
  \* in progress, of each "fetching" (response awaited) or "reading" (a chunk
  \* awaited), the time since the call began (saturating above the deadline),
  \* whether the abort timer is armed, the declared total and the bytes
  \* received; last: the last step and, where a call returned in it, the value
  \* returned, the callbacks invoked, whether a file was handed to the save
  \* step and its size, the bytes the call had received and whether it had
  \* emitted a progress percentage
  dl

orchVars == <<isWorking, isLoading, taskMessage, error, pollingIntervalRef,
              completionCallbackFiredRef, isPollingRef>>
timerVars == <<grace, interval, safety, nLoops>>
netVars == <<posts, checks, uclock, settled>>
histVars == <<phase, firedInCycle, firstLog, last>>
apiVars == <<maxRetries, retryDelay, debounceTime, apiIsLoading, apiError,
             sinceLastRequest, pendingRequests, calls, debounceTimers, apiLast>>
dlVars == <<dl>>
vars == <<orchVars, timerVars, netVars, histVars, apiVars, dlVars>>

----------------------------------------------------------------------------
(* Helpers *)

Min(a, b) == IF a < b THEN a ELSE b

Ev(op) == [op |-> op, ret |-> "none", onError |-> FALSE]

TotalChecks == LET S[i \in 0..MaxLoops] == IF i = 0 THEN 0 ELSE S[i-1] + checks[i]
               IN S[MaxLoops]

LiveIntervals == {l \in Loops : interval[l] # NoTimer}
PendingGraces == {l \in Loops : grace[l] # NoTimer}
PendingSafeties == {l \in Loops : safety[l] # NoTimer}

TimerPending == LiveIntervals # {} \/ PendingGraces # {} \/ PendingSafeties # {}
TimerDue == \E l \in Loops : grace[l] = 0 \/ interval[l] = 0 \/ safety[l] = 0

\* time since the startPolling execution l; the hook never cancels a grace or a
\* safety timer, so they tell it (it is at least what this gives once both are spent)
LoopAge(l) ==
  IF grace[l] # NoTimer THEN GraceDelay - grace[l]
  ELSE IF safety[l] # NoTimer THEN GraceDelay + SafetyTimeout - safety[l]
  ELSE GraceDelay + SafetyTimeout

\* the caller's window is open
WindowOpen == uclock < MaxUserTime

\* a startPolling execution beyond those the awaited POSTs may need stays
\* within MaxLoops
LoopSlotFree == nLoops + posts < MaxLoops

----------------------------------------------------------------------------
(* Part 2, helpers: request keys and call chains *)

\* the url arguments the model calls with, as sequences of characters
ApiPrefix == <<"/", "a", "p", "i", "/">>
Urls == {ApiPrefix \o <<"x">>, <<"/", "x">>, <<"x">>}

\* the (method, url) arguments the model calls executeRequest with: one path
\* written with the prefix, with a leading slash and bare (post, put and delete
\* take the same path through executeRequest as get)
Requests == {<<"get", u>> : u \in Urls}

StartsWith(url, prefix) ==
  Len(url) >= Len(prefix) /\ SubSeq(url, 1, Len(prefix)) = prefix

\* url.startsWith("/api/") ? url.substring(4) : url
cleanUrl(url) ==
  IF StartsWith(url, ApiPrefix) THEN SubSeq(url, 4 + 1, Len(url)) ELSE url

\* `${method}:${url}`
getDebounceKey(method, url) == <<method, ":">> \o url

\* the debounceKey executeRequest computes from its arguments
KeyOf(method, url) == getDebounceKey(method, cleanUrl(url))

Keys == {KeyOf(r[1], r[2]) : r \in Requests}

Slots == 1..MaxCalls

IdleCall == [st |-> "idle", key |-> <<>>, retryCount |-> 0, timer |-> NoTimer,
             sent |-> 0, failed |-> 0, debounced |-> FALSE]

ApiEv(op) == [op |-> op, ret |-> "none", onError |-> FALSE, failed |-> 0,
              debounced |-> FALSE]

NoDebounce == [timer |-> NoTimer, args |-> <<>>, dropped |-> 0]

\* the state of useApiWithRetry after construction
ApiIdle ==
  /\ apiIsLoading = FALSE
  /\ apiError = FALSE
  /\ sinceLastRequest = [k \in Keys |-> debounceTime]
  /\ pendingRequests = [k \in Keys |-> FALSE]
  /\ calls = [c \in Slots |-> IdleCall]
  /\ debounceTimers = [k \in Keys |-> NoDebounce]
  /\ apiLast = ApiEv("none")

\* useApiWithRetry() with its default options
ApiDefault ==
  /\ maxRetries = DefaultMaxRetries
  /\ retryDelay = DefaultRetryDelay
  /\ debounceTime = DefaultDebounceTime
  /\ ApiIdle

\* the character codes of the characters written in the headers below
Code(ch) ==
  CASE ch = " " -> 32 [] ch = "\"" -> 34 [] ch = "%" -> 37 [] ch = "'" -> 39
    [] ch = "*" -> 42 [] ch = "-" -> 45 [] ch = "." -> 46 [] ch = "0" -> 48
    [] ch = "2" -> 50 [] ch = "3" -> 51 [] ch = "8" -> 56 [] ch = "9" -> 57
    [] ch = ";" -> 59 [] ch = "=" -> 61 [] ch = "A" -> 65 [] ch = "C" -> 67
    [] ch = "E" -> 69 [] ch = "F" -> 70 [] ch = "T" -> 84 [] ch = "U" -> 85
    [] ch = "a" -> 97 [] ch = "b" -> 98 [] ch = "c" -> 99 [] ch = "e" -> 101
    [] ch = "f" -> 102 [] ch = "h" -> 104 [] ch = "i" -> 105 [] ch = "l" -> 108 [] ch = "m" -> 109
    [] ch = "n" -> 110 [] ch = "t" -> 116 [] ch = "u" -> 117 [] ch = "x" -> 120

\* a string as the sequence of its character codes
Str(s) == [i \in 1..Len(s) |-> Code(s[i])]

\* the fallbackFilename argument of the calls
FallbackName == Str(<<"f", ".", "b">>)

\* a downloadFileWithProgress call at its await of fetch
NewDownload == [st |-> "fetching", age |-> 0, armed |-> TRUE, total |-> 0,
                received |-> 0, chunks |-> <<>>, filename |-> FallbackName]

DlEv(op) == [op |-> op, ret |-> "none", onError |-> FALSE, onSuccess |-> FALSE,
             saved |-> FALSE, bytes |-> 0, received |-> 0, emitted |-> FALSE,
             payload |-> <<>>, url |-> <<>>, filename |-> <<>>, total |-> 0]

\* the state of useDownloadProgress after construction
DlIdle ==
  dl = [isDownloading |-> FALSE, progress |-> 0, calls |-> EmptyBag,
        last |-> DlEv("none")]

----------------------------------------------------------------------------
\* the state of useIsWorking after construction
OrchInit ==
  /\ isWorking = FALSE
  /\ isLoading = FALSE
  /\ taskMessage = FALSE
  /\ error = FALSE
  /\ pollingIntervalRef = 0
  /\ completionCallbackFiredRef = FALSE
  /\ isPollingRef = FALSE
  /\ grace = [l \in Loops |-> NoTimer]
  /\ interval = [l \in Loops |-> NoTimer]
  /\ safety = [l \in Loops |-> NoTimer]
  /\ nLoops = 0
  /\ posts = 0
  /\ checks = [l \in Loops |-> 0]
  /\ uclock = 0
  /\ settled = FALSE
  /\ phase = "idle"
  /\ firedInCycle = 0
  /\ firstLog = "none"
  /\ last = Ev("other")

Init == OrchInit /\ ApiDefault /\ DlIdle

----------------------------------------------------------------------------
(* Fragments of the hook's callbacks *)

\* cleanupPolling: clearInterval of the interval the ref names, flag cleared
cleanupPolling ==
  /\ interval' = IF pollingIntervalRef # 0
                 THEN [interval EXCEPT ![pollingIntervalRef] = NoTimer]
                 ELSE interval
  /\ pollingIntervalRef' = 0
  /\ isPollingRef' = FALSE

\* mutant: startPolling without its guard
AlreadyPolling_Never == FALSE

\* mutant: executeCompletionCallback without its single-fire guard
CallbackGuard_Unguarded == TRUE

\* the condition under which executeCompletionCallback invokes onComplete
\* (the caller supplies onComplete)
CallbackGuard == ~completionCallbackFiredRef

executeCompletionCallback ==
  /\ completionCallbackFiredRef' = (completionCallbackFiredRef \/ CallbackGuard)
  /\ firedInCycle' = IF CallbackGuard THEN Min(firedInCycle + 1, 2) ELSE firedInCycle

\* the guard at the head of startPolling
AlreadyPolling == isPollingRef

\* the body of startPolling up to and including the grace setTimeout
startPolling ==
  IF AlreadyPolling
  THEN UNCHANGED <<isWorking, isLoading, isPollingRef, completionCallbackFiredRef,
                   grace, nLoops, firedInCycle, firstLog>>
  ELSE /\ firstLog' = "none"
       /\ isWorking' = TRUE
       /\ isLoading' = TRUE
       /\ isPollingRef' = TRUE
       /\ completionCallbackFiredRef' = FALSE
       /\ grace' = [grace EXCEPT ![nLoops + 1] = GraceDelay]
       /\ nLoops' = nLoops + 1
       /\ firedInCycle' = 0

\* a request is issued: the first one of a loop (immediate), or a later one
LogIssue(log, immediate) ==
  IF immediate THEN "pending"
  ELSE IF log = "pending" THEN "pending2" ELSE log

\* checkTaskStatus up to its await: one more status request for loop l;
\* immediate: the call that follows the grace delay, not one of the interval
IssueCheck(l, immediate) ==
  /\ TotalChecks < MaxInflight
  /\ checks' = [checks EXCEPT ![l] = @ + 1]
  /\ firstLog' = IF l = nLoops THEN LogIssue(firstLog, immediate) ELSE firstLog

----------------------------------------------------------------------------
(* The caller's operations *)

\* startTask up to its await of the start POST
StartTask ==
  /\ WindowOpen
  /\ LoopSlotFree
  /\ cleanupPolling
  /\ taskMessage' = TRUE
  /\ isLoading' = TRUE
  /\ error' = FALSE
  /\ completionCallbackFiredRef' = FALSE
  /\ posts' = posts + 1
  /\ uclock' = uclock
  /\ phase' = "starting"
  /\ firedInCycle' = 0
  /\ last' = Ev("other")
  /\ UNCHANGED <<isWorking, grace, safety, nLoops, checks, settled, firstLog>>
  /\ UNCHANGED <<apiVars, dlVars>>

\* what startTask does when the POST's response is ok
OnStartOk ==
  /\ startPolling
  /\ last' = [Ev("startAnswer") EXCEPT !.ret = "true"]
  /\ UNCHANGED error

\* startTask resumes: response.ok
PostOk ==
  /\ posts > 0
  /\ posts' = posts - 1
  /\ OnStartOk
  /\ phase' = "started"
  /\ UNCHANGED <<taskMessage, pollingIntervalRef, interval, safety,
                 checks, uclock, settled>>
  /\ UNCHANGED <<apiVars, dlVars>>

\* mutant: the catch block of startTask without setIsLoading(false)
OnStartError_KeepsLoading ==
  /\ isWorking' = FALSE
  /\ error' = TRUE
  /\ last' = [Ev("startAnswer") EXCEPT !.ret = "false", !.onError = TRUE]
  /\ UNCHANGED <<isLoading, isPollingRef, completionCallbackFiredRef, grace, nLoops,
                 firedInCycle, firstLog>>

\* the catch block of startTask
OnStartError ==
  /\ isLoading' = FALSE
  /\ isWorking' = FALSE
  /\ error' = TRUE
  /\ last' = [Ev("startAnswer") EXCEPT !.ret = "false", !.onError = TRUE]
  /\ UNCHANGED <<isPollingRef, completionCallbackFiredRef, grace, nLoops,
                 firedInCycle, firstLog>>

\* startTask resumes: the POST was answered non-2xx, or fetch rejected
PostFail ==
  /\ posts > 0
  /\ posts' = posts - 1
  /\ OnStartError
  /\ phase' = IF phase = "starting" /\ posts = 1 THEN "failed" ELSE phase
  /\ UNCHANGED <<taskMessage, pollingIntervalRef, interval, safety,
                 checks, uclock, settled>>
  /\ UNCHANGED <<apiVars, dlVars>>

\* the caller calls the returned startPolling
StartPolling ==
  /\ WindowOpen
  /\ AlreadyPolling \/ LoopSlotFree
  /\ startPolling
  /\ uclock' = uclock
  /\ phase' = IF AlreadyPolling THEN phase ELSE "polling"
  /\ last' = Ev("startPolling")
  /\ UNCHANGED <<taskMessage, error, pollingIntervalRef, interval, safety,
                 posts, checks, settled>>
  /\ UNCHANGED <<apiVars, dlVars>>

\* the caller calls stopPolling, which is cleanupPolling; the hook's effect
\* cleanup calls the same function when the owning component unmounts
StopPolling ==
  /\ WindowOpen
  /\ cleanupPolling
  /\ phase' = "cancelled"
  /\ last' = Ev("other")
  /\ UNCHANGED <<isWorking, isLoading, taskMessage, error, completionCallbackFiredRef,
                 grace, safety, nLoops, posts, checks, uclock, settled,
                 firedInCycle, firstLog>>
  /\ UNCHANGED <<apiVars, dlVars>>

\* mutant: resetState that leaves the error
ClearsError_Keeps == error

\* setError(null) of resetState
ClearsError == FALSE

ResetState ==
  /\ WindowOpen
  /\ cleanupPolling
  /\ isWorking' = FALSE
  /\ isLoading' = FALSE
  /\ error' = ClearsError
  /\ completionCallbackFiredRef' = FALSE
  /\ phase' = "cancelled"
  /\ firedInCycle' = 0
  /\ last' = Ev("resetState")
  /\ UNCHANGED <<taskMessage, grace, safety, nLoops, posts, checks, uclock, settled,
                 firstLog>>
  /\ UNCHANGED <<apiVars, dlVars>>

----------------------------------------------------------------------------
(* Timers *)

\* time advances by one unit; a due timer fires first, and a start POST is
\* answered before the caller's window closes
Tick ==
  /\ TimerPending
  /\ ~TimerDue
  /\ posts = 0 \/ uclock + 1 < MaxUserTime
  /\ grace' = [l \in Loops |-> IF grace[l] > 0 THEN grace[l] - 1 ELSE grace[l]]
  /\ interval' = [l \in Loops |-> IF interval[l] > 0 THEN interval[l] - 1 ELSE interval[l]]
  /\ safety' = [l \in Loops |-> IF safety[l] > 0 THEN safety[l] - 1 ELSE safety[l]]
  /\ uclock' = Min(uclock + 1, MaxUserTime)
  /\ last' = Ev("other")
  /\ UNCHANGED <<orchVars, nLoops, posts, checks, settled, phase, firedInCycle,
                 firstLog>>
  /\ UNCHANGED <<apiVars, dlVars>>

\* the grace setTimeout of loop l fires: first check, setInterval, safety setTimeout
GraceFire(l) ==
  /\ grace[l] = 0
  /\ grace' = [grace EXCEPT ![l] = NoTimer]
  /\ IssueCheck(l, TRUE)
  /\ interval' = [interval EXCEPT ![l] = PollInterval]
  /\ pollingIntervalRef' = l
  /\ safety' = [safety EXCEPT ![l] = SafetyTimeout]
  /\ last' = Ev("other")
  /\ UNCHANGED <<isWorking, isLoading, taskMessage, error, completionCallbackFiredRef,
                 isPollingRef, nLoops, posts, uclock, settled, phase, firedInCycle>>
  /\ UNCHANGED <<apiVars, dlVars>>

\* the setInterval of loop l ticks: checkTaskStatus again
IntervalTick(l) ==
  /\ interval[l] = 0
  /\ interval' = [interval EXCEPT ![l] = PollInterval]
  /\ IssueCheck(l, FALSE)
  /\ last' = Ev("other")
  /\ UNCHANGED <<orchVars, grace, safety, nLoops, posts, uclock, settled, phase,
                 firedInCycle>>
  /\ UNCHANGED <<apiVars, dlVars>>

\* the condition under which the safety timeout ends the polling
SafetyGuard == isPollingRef

\* the callback of the safety setTimeout
OnSafetyTimeout ==
  IF SafetyGuard
  THEN /\ isWorking' = FALSE
       /\ isLoading' = FALSE
       /\ cleanupPolling
       /\ executeCompletionCallback
  ELSE UNCHANGED <<isWorking, isLoading, interval, pollingIntervalRef,
                   isPollingRef, completionCallbackFiredRef, firedInCycle>>

\* the safety setTimeout of loop l fires
SafetyFire(l) ==
  /\ safety[l] = 0
  /\ safety' = [safety EXCEPT ![l] = NoTimer]
  /\ OnSafetyTimeout
  /\ last' = Ev("other")
  /\ UNCHANGED <<taskMessage, error, grace, nLoops, posts, checks, uclock, settled,
                 phase, firstLog>>
  /\ UNCHANGED <<apiVars, dlVars>>

----------------------------------------------------------------------------
(* Answers to the status requests *)

\* the first status request of the latest loop is outstanding
FirstOutstanding == firstLog # "none"

\* a status request of loop l is outstanding; first: it is the first one of the
\* latest loop
CanAnswer(l, first) ==
  /\ checks[l] > 0
  /\ first => l = nLoops /\ FirstOutstanding
  /\ ~first => checks[l] > (IF l = nLoops /\ FirstOutstanding THEN 1 ELSE 0)

\* the request is answered, whatever the answer
Answer(l, first) ==
  /\ checks' = [checks EXCEPT ![l] = @ - 1]
  /\ firstLog' = IF first THEN "none" ELSE firstLog

\* checkTaskStatus resumes with is_working = true: nothing to do
OnStillWorking ==
  UNCHANGED <<isWorking, isLoading, interval, pollingIntervalRef, isPollingRef,
              completionCallbackFiredRef, firedInCycle>>

\* mutant: the not-working branch without executeCompletionCallback
OnNotWorking_NoCallback ==
  /\ isWorking' = FALSE
  /\ isLoading' = FALSE
  /\ cleanupPolling
  /\ UNCHANGED <<completionCallbackFiredRef, firedInCycle>>

\* checkTaskStatus resumes with is_working = false
OnNotWorking ==
  /\ isWorking' = FALSE
  /\ isLoading' = FALSE
  /\ cleanupPolling
  /\ executeCompletionCallback

\* mutant: the catch block of checkTaskStatus stops the polling
OnStatusError_Stops ==
  /\ cleanupPolling
  /\ UNCHANGED <<isWorking, isLoading, completionCallbackFiredRef, firedInCycle>>

\* the catch block of checkTaskStatus: logged, nothing else
OnStatusError ==
  UNCHANGED <<isWorking, isLoading, interval, pollingIntervalRef, isPollingRef,
              completionCallbackFiredRef, firedInCycle>>

StatusWorking(l, first) ==
  /\ CanAnswer(l, first)
  /\ ~settled
  /\ Answer(l, first)
  /\ OnStillWorking
  /\ last' = Ev("other")
  /\ UNCHANGED <<taskMessage, error, grace, safety, nLoops, posts, uclock, settled,
                 phase>>
  /\ UNCHANGED <<apiVars, dlVars>>

StatusDone(l, first) ==
  /\ CanAnswer(l, first)
  /\ Answer(l, first)
  /\ OnNotWorking
  /\ last' = Ev("other")
  /\ UNCHANGED <<taskMessage, error, grace, safety, nLoops, posts, uclock, settled,
                 phase>>
  /\ UNCHANGED <<apiVars, dlVars>>

\* the status request failed: fetch rejected, or the answer was non-2xx
StatusFail(l, first) ==
  /\ CanAnswer(l, first)
  /\ ~settled
  /\ Answer(l, first)
  /\ OnStatusError
  /\ last' = Ev("statusFail")
  /\ UNCHANGED <<taskMessage, error, grace, safety, nLoops, posts, uclock, settled,
                 phase>>
  /\ UNCHANGED <<apiVars, dlVars>>

\* from now on the status endpoint answers is_working = false
Settle ==
  /\ ~settled
  /\ settled' = TRUE
  /\ last' = Ev("other")
  /\ UNCHANGED <<orchVars, timerVars, posts, checks, uclock, phase, firedInCycle,
                 firstLog>>
  /\ UNCHANGED <<apiVars, dlVars>>

----------------------------------------------------------------------------
UserStep == StartTask \/ StartPolling \/ StopPolling \/ ResetState

TimerFire == \E l \in Loops : GraceFire(l) \/ IntervalTick(l) \/ SafetyFire(l)

StatusAnswer ==
  \E l \in Loops, first \in BOOLEAN :
    StatusWorking(l, first) \/ StatusDone(l, first) \/ StatusFail(l, first)

PostAnswer == PostOk \/ PostFail

Next == UserStep \/ Tick \/ TimerFire \/ StatusAnswer \/ PostAnswer

Spec == Init /\ [][Next]_vars

\* Time with the duration of the safety timeout left open: a pending safety
\* timer becomes due after any number of time units.  Every behaviour of Tick
\* is one of TickOpen (a safety timer that is not yet due reads SafetyTimeout
\* here), so what holds of OpenSpec holds for the 5 minutes of the code and
\* for any other duration.
TickOpen ==
  /\ TimerPending
  /\ ~TimerDue
  /\ posts = 0 \/ uclock + 1 < MaxUserTime
  /\ grace' = [l \in Loops |-> IF grace[l] > 0 THEN grace[l] - 1 ELSE grace[l]]
  /\ interval' = [l \in Loops |-> IF interval[l] > 0 THEN interval[l] - 1 ELSE interval[l]]
  /\ \E due \in SUBSET PendingSafeties :
       safety' = [l \in Loops |-> IF l \in due THEN 0 ELSE safety[l]]
  /\ uclock' = Min(uclock + 1, MaxUserTime)
  /\ last' = Ev("other")
  /\ UNCHANGED <<orchVars, nLoops, posts, checks, settled, phase, firedInCycle,
                 firstLog>>
  /\ UNCHANGED <<apiVars, dlVars>>

OpenNext == UserStep \/ TickOpen \/ TimerFire \/ StatusAnswer \/ PostAnswer

OpenSpec == Init /\ [][OpenNext]_vars

\* The specification of the liveness claims: the status endpoint may settle,
\* and it does so before the caller's window closes; timers fire, time
\* advances, and every request is answered.
LiveTick == TickOpen /\ (settled \/ uclock + 1 < MaxUserTime)

LiveNext == UserStep \/ LiveTick \/ TimerFire \/ StatusAnswer \/ PostAnswer \/ Settle

LiveSpec ==
  /\ Init
  /\ [][LiveNext]_vars
  /\ WF_vars(LiveTick)
  /\ WF_vars(TimerFire)
  /\ WF_vars(StatusAnswer)
  /\ WF_vars(PostAnswer)

----------------------------------------------------------------------------
(* Part 2: useApiWithRetry *)

optVars == <<maxRetries, retryDelay, debounceTime>>
partOneVars == <<orchVars, timerVars, netVars, histVars>>

\* the lowest free slot, 0 if none
FreeSlot ==
  IF \E c \in Slots : calls[c].st = "idle"
  THEN CHOOSE c \in Slots :
         calls[c].st = "idle" /\ \A d \in Slots : d < c => calls[d].st # "idle"
  ELSE 0

\* mutant: the throttle check applies to retries too
ThrottleCheck_AlsoRetries(key, retryCount) == sinceLastRequest[key] < debounceTime

\* the throttle check of executeRequest
ThrottleCheck(key, retryCount) ==
  sinceLastRequest[key] < debounceTime /\ retryCount = 0

\* mutant: no dedup check
PendingCheck_Never(key, retryCount) == FALSE

\* the dedup check of executeRequest
PendingCheck(key, retryCount) ==
  pendingRequests[key] /\ retryCount = 0

\* executeRequest decides to issue no network call
Skips(key, retryCount) ==
  ThrottleCheck(key, retryCount) \/ PendingCheck(key, retryCount)

\* mutant: the flag survives the end of the call
PendingCleared_Kept(key) == pendingRequests

\* pendingRequests.current[debounceKey] = false
PendingCleared(key) == [pendingRequests EXCEPT ![key] = FALSE]

\* mutant: a skipped call records the time of the call
SkipRequest_Restamps(key, debounced) ==
  /\ apiIsLoading' = FALSE
  /\ apiLast' = [ApiEv(IF ThrottleCheck(key, 0) THEN "throttled" ELSE "deduped")
                   EXCEPT !.ret = "null", !.debounced = debounced]
  /\ sinceLastRequest' = [sinceLastRequest EXCEPT ![key] = 0]
  /\ UNCHANGED <<pendingRequests, calls>>

\* the skip paths of executeRequest: setIsLoading(false), return null
SkipRequest(key, debounced) ==
  /\ apiIsLoading' = FALSE
  /\ apiLast' = [ApiEv(IF ThrottleCheck(key, 0) THEN "throttled" ELSE "deduped")
                   EXCEPT !.ret = "null", !.debounced = debounced]
  /\ UNCHANGED <<sinceLastRequest, pendingRequests, calls>>

\* executeRequest from the pending mark to the await of the axios call
SendRequest(c, key, retryCount, debounced) ==
  /\ pendingRequests' = [pendingRequests EXCEPT ![key] = TRUE]
  /\ sinceLastRequest' = [sinceLastRequest EXCEPT ![key] = 0]
  /\ calls' = [calls EXCEPT ![c] =
                 [st |-> "inflight", key |-> key, retryCount |-> retryCount,
                  timer |-> NoTimer, sent |-> calls[c].sent + 1,
                  failed |-> calls[c].failed, debounced |-> debounced]]

\* executeRequest with retryCount = 0, up to its return of null or its await
\* of the axios call; debounced: the call is made by a debounce timer, whose
\* promise the outcome resolves
executeRequest(method, url, debounced) ==
  LET key == KeyOf(method, url) IN
  /\ apiError' = FALSE
  /\ IF Skips(key, 0)
     THEN SkipRequest(key, debounced)
     ELSE /\ FreeSlot # 0
          /\ apiIsLoading' = TRUE
          /\ SendRequest(FreeSlot, key, 0, debounced)
          /\ apiLast' = [ApiEv("sent") EXCEPT !.debounced = debounced]

\* a fresh call get/post/put/delete(url)
ExecuteRequest(method, url) ==
  /\ executeRequest(method, url, FALSE)
  /\ UNCHANGED <<debounceTimers, optVars, partOneVars, dlVars>>

\* mutant: the success path returns null
SuccessValue_Null == "null"

\* what executeRequest returns when the axios call succeeded
SuccessValue == "response"

\* the axios call of chain c succeeded: flag cleared, response returned, finally
NetOk(c) ==
  /\ calls[c].st = "inflight"
  /\ pendingRequests' = PendingCleared(calls[c].key)
  /\ calls' = [calls EXCEPT ![c] = IdleCall]
  /\ apiIsLoading' = FALSE
  /\ apiLast' = [ApiEv("returned") EXCEPT !.ret = SuccessValue,
                                         !.failed = calls[c].failed,
                                         !.debounced = calls[c].debounced]
  /\ UNCHANGED <<apiError, sinceLastRequest, debounceTimers, optVars, partOneVars, dlVars>>

\* the retry condition of the catch block
CanRetry(retryCount) == retryCount < maxRetries

\* the axios call of chain c failed and a retry is due: the retry delay begins
NetFailRetry(c) ==
  /\ calls[c].st = "inflight"
  /\ CanRetry(calls[c].retryCount)
  /\ calls' = [calls EXCEPT ![c].st = "delay", ![c].timer = retryDelay,
                             ![c].failed = @ + 1]
  /\ apiLast' = ApiEv("failed")
  /\ UNCHANGED <<apiIsLoading, apiError, sinceLastRequest, pendingRequests,
                 debounceTimers, optVars, partOneVars, dlVars>>

\* the axios call of chain c failed and the retries are exhausted: setError,
\* onError, flag cleared, null returned, finally; throws: the onError callback
\* of the caller throws, which ends the catch block there
NetFailFinal(c, throws) ==
  /\ calls[c].st = "inflight"
  /\ ~CanRetry(calls[c].retryCount)
  /\ apiError' = TRUE
  /\ pendingRequests' = IF throws THEN pendingRequests
                        ELSE PendingCleared(calls[c].key)
  /\ calls' = [calls EXCEPT ![c] = IdleCall]
  /\ apiIsLoading' = FALSE
  /\ apiLast' = [ApiEv("returned") EXCEPT !.ret = IF throws THEN "thrown" ELSE "null",
                                         !.onError = TRUE,
                                         !.failed = calls[c].failed + 1,
                                         !.debounced = calls[c].debounced]
  /\ UNCHANGED <<sinceLastRequest, debounceTimers, optVars, partOneVars, dlVars>>

\* the retry delay of chain c is over: executeRequest(retryCount + 1) up to its
\* await of the axios call, then the finally of the attempt that failed
RetryFire(c) ==
  LET key == calls[c].key
      retryCount == calls[c].retryCount + 1 IN
  /\ calls[c].st = "delay"
  /\ calls[c].timer = 0
  /\ apiError' = FALSE
  /\ apiIsLoading' = FALSE
  /\ IF Skips(key, retryCount)
     THEN /\ calls' = [calls EXCEPT ![c] = IdleCall]
          /\ apiLast' = [ApiEv("returned") EXCEPT !.ret = "null",
                                                 !.failed = calls[c].failed,
                                                 !.debounced = calls[c].debounced]
          /\ UNCHANGED <<sinceLastRequest, pendingRequests>>
     ELSE /\ SendRequest(c, key, retryCount, calls[c].debounced)
          /\ apiLast' = ApiEv("resent")
  /\ UNCHANGED <<debounceTimers, optVars, partOneVars, dlVars>>

\* time advances by one unit; a timer that is due fires first
ApiTick ==
  /\ \A c \in Slots : calls[c].st = "delay" => calls[c].timer > 0
  /\ \A k \in Keys : debounceTimers[k].timer # 0
  /\ debounceTimers' = [k \in Keys |->
                          IF debounceTimers[k].timer > 0
                          THEN [debounceTimers[k] EXCEPT !.timer = @ - 1]
                          ELSE debounceTimers[k]]
  /\ sinceLastRequest' = [k \in Keys |-> Min(sinceLastRequest[k] + 1, debounceTime)]
  /\ calls' = [c \in Slots |->
                 IF calls[c].st = "delay"
                 THEN [calls[c] EXCEPT !.timer = @ - 1]
                 ELSE calls[c]]
  /\ apiLast' = ApiEv("tick")
  /\ UNCHANGED <<apiIsLoading, apiError, pendingRequests, optVars, partOneVars, dlVars>>

FreshCall == \E r \in Requests : ExecuteRequest(r[1], r[2])

NetAnswer ==
  \E c \in Slots :
    NetOk(c) \/ NetFailRetry(c) \/ \E throws \in BOOLEAN : NetFailFinal(c, throws)

Retry == \E c \in Slots : RetryFire(c)

ApiNext == FreshCall \/ NetAnswer \/ Retry \/ ApiTick

\* useApiWithRetry(options) with the options drawn from their ranges
ApiInit ==
  /\ OrchInit
  /\ maxRetries \in 0..MaxRetriesOption
  /\ retryDelay \in 1..MaxDelay
  /\ debounceTime \in 1..MaxDelay
  /\ ApiIdle
  /\ DlIdle

ApiSpec == ApiInit /\ [][ApiNext]_vars

----------------------------------------------------------------------------
(* Part 2, the debounced variants *)

\* mutant: a later call leaves the pending timer and its arguments alone
DebounceTimerSet_FirstWins(key, method, url) ==
  IF debounceTimers[key].timer # NoTimer
  THEN [debounceTimers EXCEPT ![key].dropped = Min(@ + 1, MaxDropped)]
  ELSE [debounceTimers EXCEPT ![key].timer = debounceTime,
                              ![key].args = <<method, url>>]

\* debounce: clearTimeout of the key's timer, then a new timer whose callback
\* holds the arguments of this call; the promise of the call whose timer was
\* cleared is left with nothing that resolves it
DebounceTimerSet(key, method, url) ==
  [debounceTimers EXCEPT
     ![key] = [timer |-> debounceTime, args |-> <<method, url>>,
               dropped |-> IF @.timer # NoTimer
                           THEN Min(@.dropped + 1, MaxDropped)
                           ELSE @.dropped]]

\* debouncedGet/Post/Put/Delete(url): debounce up to the promise it returns
DebouncedCall(method, url) ==
  LET key == KeyOf(method, url) IN
  /\ debounceTimers' = DebounceTimerSet(key, method, url)
  /\ apiLast' = ApiEv("debounce")
  /\ UNCHANGED <<apiIsLoading, apiError, sinceLastRequest, pendingRequests, calls,
                 optVars, partOneVars, dlVars>>

\* the debounce timer of key k fires: executeRequest(method, url, config) with
\* the arguments of the call that set it, .then(resolve)
DebounceFire(k) ==
  /\ debounceTimers[k].timer = 0
  /\ executeRequest(debounceTimers[k].args[1], debounceTimers[k].args[2], TRUE)
  /\ debounceTimers' = [debounceTimers EXCEPT ![k].timer = NoTimer]
  /\ UNCHANGED <<optVars, partOneVars, dlVars>>

Debounced == \E r \in Requests : DebouncedCall(r[1], r[2])

DebounceTimeout == \E k \in Keys : DebounceFire(k)

\* the hook used through its debounced variants
DebounceNext ==
  Debounced \/ DebounceTimeout \/ NetAnswer \/ Retry \/ ApiTick

\* useApiWithRetry({maxRetries}) with the default delays
DebounceInit ==
  /\ OrchInit
  /\ maxRetries \in 0..MaxDebounceRetries
  /\ retryDelay = DefaultRetryDelay
  /\ debounceTime = DefaultDebounceTime
  /\ ApiIdle
  /\ DlIdle

DebounceSpec == DebounceInit /\ [][DebounceNext]_vars

\* timers fire, time advances and every network call is answered
DebounceLiveSpec ==
  /\ DebounceSpec
  /\ WF_vars(DebounceTimeout)
  /\ WF_vars(NetAnswer)
  /\ WF_vars(Retry)
  /\ WF_vars(ApiTick)

----------------------------------------------------------------------------
(* Part 3: useDownloadProgress *)

\* the calls in progress
Downloads == BagToSet(dl.calls)

\* the calls in progress without (one copy of) call c
DropCall(c) == dl.calls (-) SetToBag({c})

\* the calls in progress with (one copy of) call c replaced by call e
PutCall(c, e) == DropCall(c) (+) SetToBag({e})

\* mutant: the percentage truncated
Percent_Truncated(received, total) == (100 * received) \div total

\* Math.round((receivedLength / total) * 100), total > 0
Percent(received, total) == (200 * received + total) \div (2 * total)

\* /^https?:\/\//.test(url)
IsAbsolute(url) ==
  \/ StartsWith(url, <<"h", "t", "t", "p", ":", "/", "/">>)
  \/ StartsWith(url, <<"h", "t", "t", "p", "s", ":", "/", "/">>)

\* the URL handed to fetch
FinalUrl(url) ==
  IF IsAbsolute(url) THEN url
  ELSE LET cleanPath == IF StartsWith(url, ApiPrefix)
                        THEN SubSeq(url, 5, Len(url))
                        ELSE url
       IN  <<"/", "a", "p", "i">> \o (IF StartsWith(cleanPath, <<"/">>)
                                      THEN cleanPath
                                      ELSE <<"/">> \o cleanPath)

\* the url arguments of the calls: absolute, with the /api/ prefix, with and
\* without a leading slash
DownloadUrls ==
  { <<"h", "t", "t", "p", ":", "/", "/", "h", "/", "x">>,
    <<"h", "t", "t", "p", "s", ":", "/", "/", "h", "/", "x">>,
    ApiPrefix \o <<"x">>,
    <<"/", "x">>,
    <<"x">>,
    <<"a", "p", "i", "/", "x">> }

\* the /i flag of the regular expressions: letters compare without case
FoldCase(c) == IF 65 <= c /\ c <= 90 THEN c + 32 ELSE c

\* the literal text lit of a regular expression matches header h at position i
LitAt(h, i, lit) ==
  /\ i + Len(lit) - 1 <= Len(h)
  /\ \A k \in 1..Len(lit) : FoldCase(h[i + k - 1]) = FoldCase(lit[k])

\* the length of the longest run of characters of h from position i on with
\* none of them in stop: a greedy negated character class
RunLen(h, i, stop) ==
  LET ends == {j \in (i - 1)..Len(h) : \A k \in i..j : h[k] \notin stop}
  IN  (CHOOSE j \in ends : \A e \in ends : e <= j) - i + 1

\* the result of String.prototype.match: null, or the match with its group 1
NoMatch == [found |-> FALSE, group |-> <<>>]

\* filename\*=UTF-8''
ExtLit ==
  Str(<<"f", "i", "l", "e", "n", "a", "m", "e", "*", "=", "U", "T", "F", "-", "8",
        "'", "'">>)

\* [^;"\s]: the characters that end the extended value (\s: the white space
\* a header value can hold)
ExtStop == {59, 34, 9, 10, 11, 12, 13, 32, 160}

\* contentDisposition.match(/filename\*=UTF-8''([^;"\s]+)/i): the leftmost
\* position where the literal is followed by at least one value character
ExtMatch(h) ==
  LET at == {i \in 1..Len(h) :
               LitAt(h, i, ExtLit) /\ RunLen(h, i + Len(ExtLit), ExtStop) >= 1}
  IN  IF at = {} THEN NoMatch
      ELSE LET i == CHOOSE a \in at : \A b \in at : a <= b
               from == i + Len(ExtLit)
           IN  [found |-> TRUE,
                group |-> SubSeq(h, from, from + RunLen(h, from, ExtStop) - 1)]

\* filename="
PlainLit == Str(<<"f", "i", "l", "e", "n", "a", "m", "e", "=", "\"">>)

\* contentDisposition.match(/filename="([^"]+)"/i): the leftmost position
\* where the literal is followed by at least one character other than a quote
\* and then by a quote
PlainMatch(h) ==
  LET closed(i) == LET from == i + Len(PlainLit)
                       n == RunLen(h, from, {34})
                   IN  n >= 1 /\ from + n <= Len(h)
      at == {i \in 1..Len(h) : LitAt(h, i, PlainLit) /\ closed(i)}
  IN  IF at = {} THEN NoMatch
      ELSE LET i == CHOOSE a \in at : \A b \in at : a <= b
               from == i + Len(PlainLit)
           IN  [found |-> TRUE,
                group |-> SubSeq(h, from, from + RunLen(h, from, {34}) - 1)]

\* the value of a hexadecimal digit, -1 for any other character
HexVal(c) ==
  IF 48 <= c /\ c <= 57 THEN c - 48
  ELSE IF 97 <= c /\ c <= 102 THEN c - 87
  ELSE IF 65 <= c /\ c <= 70 THEN c - 55
  ELSE 0 - 1

\* the byte of the escape %XX at position i of v, -1 if there is none
EscapeAt(v, i) ==
  IF i + 2 <= Len(v) /\ v[i] = 37 /\ HexVal(v[i + 1]) >= 0 /\ HexVal(v[i + 2]) >= 0
  THEN 16 * HexVal(v[i + 1]) + HexVal(v[i + 2])
  ELSE 0 - 1

\* the number of bytes of the UTF-8 sequence that begins with byte b, 0 if
\* no sequence begins with it
Utf8Len(b) ==
  IF b < 128 THEN 1
  ELSE IF 194 <= b /\ b <= 223 THEN 2
  ELSE IF 224 <= b /\ b <= 239 THEN 3
  ELSE IF 240 <= b /\ b <= 244 THEN 4
  ELSE 0

\* the k-th continuation byte of the sequence escaped at position i is there
ContinuationAt(v, i, k) ==
  LET b == EscapeAt(v, i + 3 * k) IN 128 <= b /\ b <= 191

\* the code point of the UTF-8 sequence of n bytes escaped at position i
CodePoint(v, i, n) ==
  LET b(k) == EscapeAt(v, i + 3 * k)
  IN  IF n = 1 THEN b(0)
      ELSE IF n = 2 THEN (b(0) - 192) * 64 + (b(1) - 128)
      ELSE IF n = 3 THEN (b(0) - 224) * 4096 + (b(1) - 128) * 64 + (b(2) - 128)
      ELSE (b(0) - 240) * 262144 + (b(1) - 128) * 4096 + (b(2) - 128) * 64
             + (b(3) - 128)

\* the code point is one that n bytes of UTF-8 may encode: not overlong, not
\* a surrogate, not beyond U+10FFFF
ValidCodePoint(cp, n) ==
  IF n = 3 THEN cp >= 2048 /\ ~(55296 <= cp /\ cp <= 57343)
  ELSE IF n = 4 THEN 65536 <= cp /\ cp <= 1114111
  ELSE TRUE

\* the result of a call that may throw
Thrown == [ok |-> FALSE, value |-> <<>>]

RECURSIVE DecodeFrom(_, _, _)
\* decodeURIComponent from position i on, out being the text decoded so far:
\* a character other than % stands for itself, an escape sequence for the
\* code point its bytes encode in UTF-8; anything else throws URIError
DecodeFrom(v, i, out) ==
  IF i > Len(v) THEN [ok |-> TRUE, value |-> out]
  ELSE IF v[i] # 37 THEN DecodeFrom(v, i + 1, Append(out, v[i]))
  ELSE LET n == IF EscapeAt(v, i) < 0 THEN 0 ELSE Utf8Len(EscapeAt(v, i))
       IN  IF n = 0 THEN Thrown
           ELSE IF \E k \in 1..(n - 1) : ~ContinuationAt(v, i, k) THEN Thrown
           ELSE IF ~ValidCodePoint(CodePoint(v, i, n), n) THEN Thrown
           ELSE DecodeFrom(v, i + 3 * n, Append(out, CodePoint(v, i, n)))

decodeURIComponent(v) == DecodeFrom(v, 1, <<>>)

\* content-disposition headers: absent; without a filename; with a quoted
\* plain filename; with an extended and a plain one, in both orders; with an
\* extended one that does not decode (a byte that is not UTF-8, a truncated
\* escape); with an unquoted plain one; with an empty extended one
NoDisposition == <<>>
Attachment == Str(<<"a", "t", "t", "a", "c", "h", "m", "e", "n", "t">>)
Sep == Str(<<";", " ">>)
PlainC == PlainLit \o Str(<<"c", "\"">>)
Dispositions ==
  { NoDisposition,
    Attachment,
    Attachment \o Sep \o PlainLit \o Str(<<"a", ".", "t", "\"">>),
    Attachment \o Sep \o ExtLit \o Str(<<"a", "%", "2", "0", "b">>) \o Sep \o PlainC,
    PlainC \o Sep
      \o Str(<<"f", "i", "l", "e", "n", "a", "m", "e", "*", "=", "u", "t", "f", "-",
               "8", "'", "'", "%", "C", "3", "%", "A", "9">>),
    ExtLit \o Str(<<"%", "E", "9">>) \o Sep \o PlainC,
    ExtLit \o Str(<<"%", "2">>),
    Attachment \o Sep \o Str(<<"f", "i", "l", "e", "n", "a", "m", "e", "=", "a", ".", "t">>),
    ExtLit \o Sep \o PlainC }

\* mutant: the plain parameter is tried first
ParseFilename_PlainFirst(contentDisposition, fallbackFilename) ==
  IF contentDisposition = <<>> THEN fallbackFilename
  ELSE IF PlainMatch(contentDisposition).found
       THEN PlainMatch(contentDisposition).group
       ELSE IF ~ExtMatch(contentDisposition).found THEN fallbackFilename
       ELSE IF decodeURIComponent(ExtMatch(contentDisposition).group).ok
            THEN decodeURIComponent(ExtMatch(contentDisposition).group).value
            ELSE fallbackFilename

\* the filename of the download: the fallback, replaced by what the
\* content-disposition header (<<>>: absent or empty) gives; an error thrown
\* in between is caught and logged
ParseFilename(contentDisposition, fallbackFilename) ==
  IF contentDisposition = <<>> THEN fallbackFilename
  ELSE LET match == ExtMatch(contentDisposition)
           basicMatch == PlainMatch(contentDisposition)
       IN  IF match.found
           THEN LET decoded == decodeURIComponent(match.group)
                IN  IF decoded.ok THEN decoded.value ELSE fallbackFilename
           ELSE IF basicMatch.found THEN basicMatch.group
           ELSE fallbackFilename

\* the bytes of the k-th chunk of a response body, a chunk of n bytes: byte j
\* of chunk k is written <<k, j>>
ChunkBytes(k, n) == [j \in 1..n |-> <<k, j>>]

\* an element of a fresh Uint8Array
ZeroByte == <<0, 0>>

\* allChunks.set(chunk, position)
SetAt(allChunks, chunk, position) ==
  [i \in 1..Len(allChunks) |->
     IF position < i /\ i <= position + Len(chunk)
     THEN chunk[i - position]
     ELSE allChunks[i]]

\* mutant: every chunk is written at the head of the buffer
CombineFrom_NoAdvance(chunks, k, allChunks, position) ==
  IF chunks = <<>> THEN allChunks
  ELSE SetAt(allChunks, ChunkBytes(Len(chunks), chunks[Len(chunks)]), 0)

RECURSIVE CombineFrom(_, _, _, _)
\* the loop over the chunks, from the k-th on: set, then position += length
CombineFrom(chunks, k, allChunks, position) ==
  IF k > Len(chunks) THEN allChunks
  ELSE CombineFrom(chunks, k + 1,
                   SetAt(allChunks, ChunkBytes(k, chunks[k]), position),
                   position + chunks[k])

\* the chunks combined into one new Uint8Array(receivedLength); chunks holds
\* the length of each chunk, in the order of chunks.push
Combine(chunks, receivedLength) ==
  CombineFrom(chunks, 1, [i \in 1..receivedLength |-> ZeroByte], 0)

\* the effect that follows a render with isDownloading false: setProgress(0)
ResetEffect(s) == IF ~s.isDownloading THEN [s EXCEPT !.progress = 0] ELSE s

\* mutant: the finally block leaves the in-progress flag set
DlFinally_KeepsDownloading(s) == [s EXCEPT !.progress = 0]

\* the finally block: setIsDownloading(false), setProgress(0), then the effect
DlFinally(s) == ResetEffect([s EXCEPT !.isDownloading = FALSE, !.progress = 0])

\* what a returning call c leaves in the event: the bytes it received and
\* whether it emitted a percentage
Returning(c, ev) ==
  [ev EXCEPT !.received = c.received,
             !.total = c.total,
             !.emitted = c.total > 0 /\ c.received > 0]

\* mutant: the catch block hands the chunks received so far to the save step
DlCatch_SavesPartial(c, cause) ==
  dl' = DlFinally([dl EXCEPT !.calls = DropCall(c),
                             !.last = Returning(c, [DlEv(cause) EXCEPT
                                         !.ret = "false", !.onError = TRUE,
                                         !.saved = TRUE,
                                         !.bytes = c.received])])

\* the catch block (toast.error, onError, return false) and the finally;
\* cause: what was thrown
DlCatch(c, cause) ==
  dl' = DlFinally([dl EXCEPT !.calls = DropCall(c),
                             !.last = Returning(c, [DlEv(cause) EXCEPT
                                         !.ret = "false", !.onError = TRUE])])

\* downloadFileWithProgress up to its await of fetch: the abort timer is armed
StartDownload(url) ==
  /\ BagCardinality(dl.calls) < MaxDownloads
  /\ dl' = [dl EXCEPT !.isDownloading = TRUE,
                      !.progress = 0,
                      !.calls = @ (+) SetToBag({NewDownload}),
                      !.last = [DlEv("start") EXCEPT !.url = FinalUrl(url)]]
  /\ UNCHANGED <<partOneVars, apiVars>>

\* clearTimeout(timeoutId): whether the abort timer is armed afterwards
AfterClearTimeout == FALSE

\* fetch resolved with an ok response that has a body: clearTimeout, headers
\* read (content-length total, 0 when absent; content-disposition), first
\* reader.read() awaited
ResponseOk(c, total, contentDisposition) ==
  /\ c.st = "fetching"
  /\ dl' = [dl EXCEPT !.calls = PutCall(c, [c EXCEPT !.st = "reading",
                                                     !.armed = AfterClearTimeout,
                                                     !.total = total,
                                                     !.filename = ParseFilename(
                                                        contentDisposition, @)]),
                      !.last = DlEv("response")]
  /\ UNCHANGED <<partOneVars, apiVars>>

\* fetch resolved with a response that is not ok: clearTimeout, throw
ResponseBad(c) ==
  /\ c.st = "fetching"
  /\ DlCatch(c, "status")
  /\ UNCHANGED <<partOneVars, apiVars>>

\* fetch resolved with an ok response that has no body stream: clearTimeout,
\* headers read, throw
NoBody(c) ==
  /\ c.st = "fetching"
  /\ DlCatch(c, "nobody")
  /\ UNCHANGED <<partOneVars, apiVars>>

\* fetch rejected with a network error
FetchError(c) ==
  /\ c.st = "fetching"
  /\ DlCatch(c, "network")
  /\ UNCHANGED <<partOneVars, apiVars>>

\* the abort timer fires: controller.abort(), the awaited fetch or read rejects
AbortFire(c) ==
  /\ c.armed
  /\ c.age = AbortDeadline
  /\ DlCatch(c, "timeout")
  /\ UNCHANGED <<partOneVars, apiVars>>

\* reader.read() resolved with a chunk of n bytes
ReadChunk(c, n) ==
  /\ c.st = "reading"
  /\ dl' = [dl EXCEPT !.calls = PutCall(c, [c EXCEPT !.received = @ + n,
                                                     !.chunks = Append(@, n)]),
                      !.progress = IF c.total > 0
                                   THEN Percent(c.received + n, c.total)
                                   ELSE @,
                      !.last = DlEv("chunk")]
  /\ UNCHANGED <<partOneVars, apiVars>>

\* reader.read() rejected
ReadError(c) ==
  /\ c.st = "reading"
  /\ DlCatch(c, "stream")
  /\ UNCHANGED <<partOneVars, apiVars>>

\* reader.read() resolved with done: the chunks are combined and saved,
\* onSuccess, return true, finally
ReadDone(c) ==
  /\ c.st = "reading"
  /\ dl' = DlFinally([dl EXCEPT !.calls = DropCall(c),
                                !.last = Returning(c, [DlEv("done") EXCEPT
                                            !.ret = "true", !.onSuccess = TRUE,
                                            !.saved = TRUE,
                                            !.filename = c.filename,
                                            !.payload = Combine(c.chunks, c.received),
                                            !.bytes = Len(Combine(c.chunks, c.received))])])
  /\ UNCHANGED <<partOneVars, apiVars>>

\* call c one time unit later
Older(c) == [c EXCEPT !.age = Min(@ + 1, AbortDeadline + 1)]

\* time advances by one unit; an abort timer that is due fires first
DlTick ==
  /\ \A c \in Downloads : c.armed => c.age < AbortDeadline
  /\ \E c \in Downloads : c.age <= AbortDeadline
  /\ dl' = [dl EXCEPT !.calls = BagOfAll(Older, @), !.last = DlEv("tick")]
  /\ UNCHANGED <<partOneVars, apiVars>>

\* the fetch of call c is answered otherwise than by an ok response with a body
FetchFails(c) == ResponseBad(c) \/ NoBody(c) \/ FetchError(c)

\* overlapping calls: responses without a content-disposition header
FetchAnswer ==
  \E c \in Downloads :
    \/ \E total \in 0..MaxTotal : ResponseOk(c, total, NoDisposition)
    \/ FetchFails(c)

ReadAnswer ==
  \E c \in Downloads :
    \/ \E n \in 1..MaxChunk : c.received + n <= MaxReceived /\ ReadChunk(c, n)
    \/ ReadError(c)
    \/ ReadDone(c)

AbortTimeout == \E c \in Downloads : AbortFire(c)

DownloadCall == \E url \in DownloadUrls : StartDownload(url)

DownloadNext == DownloadCall \/ FetchAnswer \/ ReadAnswer \/ AbortTimeout \/ DlTick

DownloadSpec == Init /\ [][DownloadNext]_vars

\* one call at a time: the next call is made when the one before has returned
TransferCall == dl.calls = EmptyBag /\ DownloadCall

\* the response carries any of the content-disposition headers
TransferFetchAnswer ==
  \E c \in Downloads :
    \/ \E total \in 0..MaxBody, contentDisposition \in Dispositions :
         ResponseOk(c, total, contentDisposition)
    \/ FetchFails(c)

TransferReadAnswer ==
  \E c \in Downloads :
    \/ \E n \in 1..MaxPiece : c.received + n <= MaxBody /\ ReadChunk(c, n)
    \/ ReadError(c)
    \/ ReadDone(c)

TransferNext ==
  TransferCall \/ TransferFetchAnswer \/ TransferReadAnswer \/ AbortTimeout \/ DlTick

TransferSpec == Init /\ [][TransferNext]_vars

----------------------------------------------------------------------------
(* Claims *)

\* a status request is issued for loop l in this step
Issues(l) == checks'[l] > checks[l]

\* onComplete is invoked in this step
Completes == firedInCycle' > firedInCycle

\* the safety setTimeout of loop l fires in this step
SafetyFires(l) == safety[l] = 0 /\ safety'[l] = NoTimer

\* C1: at most one polling loop is active at any instant: there is never more
\* than one live repeating status-check interval.
C1_OneInterval == Cardinality(LiveIntervals) <= 1

C3_NoRequestAfterStop ==
  [][/\ phase = "cancelled" => \A l \in Loops : ~Issues(l)
     /\ (StopPolling /\ ~isPollingRef /\ pollingIntervalRef = 0)
          => UNCHANGED <<orchVars, timerVars>>]_vars

\* C4: after stopPolling or resetState and until the next startTask/startPolling
\* onComplete is not invoked.
C4_NoCallbackAfterCancel == [][phase = "cancelled" => ~Completes]_vars

\* C5: when the safety timeout of the latest loop elapses while that loop still
\* polls and no status request has been answered is_working = false since it
\* began (isWorking has stayed true), the hook leaves the polling state: no
\* interval is left, isWorking and isLoading are false, the flag is cleared, and
\* onComplete has been invoked exactly once.
C5_SafetyEndsLoop ==
  [][\A l \in Loops :
       (SafetyFires(l) /\ l = nLoops /\ interval[l] # NoTimer /\ isWorking)
         => /\ LiveIntervals' = {}
            /\ ~isWorking' /\ ~isLoading' /\ ~isPollingRef'
            /\ firedInCycle' = 1]_vars

\* C6: a safety timeout never ends the polling earlier than SafetyTimeout after
\* the startPolling execution that began the loop it ends (the latest one).
C6_SafetyNotEarly ==
  [][\A l \in Loops :
       (SafetyFires(l) /\ isPollingRef /\ ~isPollingRef')
         => LoopAge(nLoops) >= SafetyTimeout]_vars

\* the job is reported finished: not working, not loading, onComplete fired
ReportedDone == ~isWorking /\ ~isLoading /\ firedInCycle > 0

\* C7: once startTask has returned true and the status endpoint has settled on
\* is_working = false, the hook eventually reports isWorking = false and
\* isLoading = false with onComplete fired, unless the caller stops, resets or
\* starts again in between.
C7_EventuallyDone ==
  (settled /\ phase = "started") ~> (ReportedDone \/ phase # "started")

\* C7 witness: the job of a successful startTask is reported finished after the
\* endpoint settled
C7_Witness == settled /\ phase = "started" /\ ReportedDone

\* C8: a failed status check changes nothing: the loop, its timers and flag,
\* isWorking/isLoading/error stay as they are, neither onError nor onComplete
\* is invoked, and the interval that will issue the next check stays live.
C8_FailureSwallowed ==
  [][\A l \in Loops, first \in BOOLEAN :
       StatusFail(l, first)
         => /\ UNCHANGED <<isWorking, isLoading, error, isPollingRef,
                           pollingIntervalRef, completionCallbackFiredRef,
                           grace, interval, safety>>
            /\ ~Completes
            /\ ~last'.onError]_vars

\* C8 witness: a status check has just failed and the loop is still polling
C8_Witness ==
  /\ last.op = "statusFail"
  /\ isPollingRef /\ isWorking /\ isLoading
  /\ pollingIntervalRef # 0
  /\ interval[pollingIntervalRef] # NoTimer

\* what startTask leaves behind when its POST failed
StartFailed ==
  /\ last'.ret = "false"
  /\ last'.onError
  /\ error' /\ ~isWorking' /\ ~isLoading'
  /\ ~Completes
  /\ UNCHANGED <<grace, interval, safety, nLoops, isPollingRef, pollingIntervalRef>>

\* C9 as stated: true exactly on a successful POST, and then a polling loop is
\* begun (a grace timer is created); false, error, onError and no loop otherwise.
C9_StartTaskResult ==
  [][/\ PostOk => /\ last'.ret = "true" /\ ~last'.onError
                  /\ nLoops' = nLoops + 1
                  /\ grace'[nLoops'] = GraceDelay
                  /\ isPollingRef'
     /\ PostFail => StartFailed]_vars

\* C9 amended: as C9, but on success a loop is begun only when none is flagged
\* active; otherwise startPolling is a no-op and the active loop goes on.
C9_StartTaskResultAmended ==
  [][/\ PostOk => /\ last'.ret = "true" /\ ~last'.onError
                  /\ isPollingRef'
                  /\ IF isPollingRef
                     THEN UNCHANGED <<grace, interval, safety, nLoops>>
                     ELSE nLoops' = nLoops + 1 /\ grace'[nLoops'] = GraceDelay
     /\ PostFail => StartFailed]_vars

\* C9 witness: startTask has just returned false on a failed POST while a
\* loop begun by a direct startPolling call is flagged active
C9_Witness ==
  /\ last.op = "startAnswer" /\ last.ret = "false" /\ last.onError
  /\ error /\ ~isWorking /\ ~isLoading
  /\ isPollingRef

\* C10: no status request is issued before GraceDelay has passed since the
\* loop's startPolling, and a loop whose first request is answered
\* is_working = false has issued no second request and has no interval left
\* to issue one.
C10_GraceThenSingleCheck ==
  [][\A l \in Loops :
       /\ Issues(l) => LoopAge(l) >= GraceDelay
       /\ StatusDone(l, TRUE) => firstLog = "pending" /\ interval'[l] = NoTimer]_vars

\* C11: at most one status request is outstanding at any instant.
C11_OneOutstanding == TotalChecks <= 1

\* the job state of spec 3: Polling while the is-polling flag is set, Starting
\* while a start POST is awaited, Failed after startTask returned false,
\* Completed (or TimedOut) once the end of the loop has been reported
JobState ==
  IF isPollingRef THEN "Polling"
  ELSE IF posts > 0 THEN "Starting"
  ELSE IF phase = "failed" THEN "Failed"
  ELSE IF ReportedDone THEN "Completed"
  ELSE "Idle"

\* C12: no step takes the job from a terminal state (Completed, TimedOut,
\* Failed) straight to Polling: a Starting state lies in between.
C12_TerminalThenStarting ==
  [][(JobState \in {"Completed", "Failed"}) => ~(JobState' = "Polling")]_vars

\* C13: after stopPolling or resetState and until the next startTask or
\* startPolling the hook is idle: the flag is clear, no interval is live, and
\* isWorking and isLoading are false.
C13_CancelledIsIdle ==
  phase = "cancelled"
    => ~isPollingRef /\ LiveIntervals = {} /\ ~isWorking /\ ~isLoading

\* what resetState leaves behind
AfterReset ==
  /\ ~isPollingRef
  /\ pollingIntervalRef = 0
  /\ ~isWorking /\ ~isLoading /\ ~error
  /\ ~completionCallbackFiredRef

\* C14: right after resetState the flag is false, the interval the ref named
\* is cleared and the ref is null, isWorking, isLoading, error and the fired
\* guard are false; resetState applied to such a state changes nothing.
C14_ResetState ==
  [][ResetState
       => /\ AfterReset'
          /\ pollingIntervalRef # 0 => interval'[pollingIntervalRef] = NoTimer
          /\ AfterReset => UNCHANGED <<orchVars, timerVars, posts, checks>>]_vars

\* C14 witness: resetState has just been called during the grace delay of a
\* loop
C14_Witness ==
  /\ last.op = "resetState"
  /\ AfterReset
  /\ PendingGraces # {}
  /\ phase = "cancelled"

\* C15: startPolling (called by the caller or by startTask) while the
\* is-polling flag is set creates no timer and leaves isWorking, isLoading,
\* the flag and the fired guard unchanged.
C15_StartPollingNoOp ==
  [][((StartPolling \/ PostOk) /\ isPollingRef)
       => UNCHANGED <<isWorking, isLoading, isPollingRef,
                      completionCallbackFiredRef, pollingIntervalRef,
                      grace, interval, safety, nLoops>>]_vars

\* C15 witness: the caller has just called startPolling on a loop whose
\* interval is already running (no grace timer is pending: none was created)
C15_Witness ==
  /\ last.op = "startPolling"
  /\ isPollingRef
  /\ pollingIntervalRef # 0
  /\ PendingGraces = {}
  /\ nLoops = 1

\* what the hook returns after a not-working answer: error as it was
DoneReport == <<FALSE, FALSE, error>>

Active(key) == \E c \in Slots : calls[c].st # "idle" /\ calls[c].key = key

\* C17: a fresh call made within the throttle window of its key returns null
\* and sends no network call; a fresh call made when the window has elapsed
\* and no call chain of the key is active is executed.
C17_Throttle ==
  [][\A r \in Requests :
       LET key == KeyOf(r[1], r[2]) IN
       /\ (ExecuteRequest(r[1], r[2]) /\ sinceLastRequest[key] < debounceTime)
            => apiLast'.ret = "null" /\ UNCHANGED calls
       /\ (ExecuteRequest(r[1], r[2]) /\ sinceLastRequest[key] = debounceTime
              /\ ~Active(key))
            => apiLast'.op = "sent" /\ Active(key)']_vars

\* C18: a fresh call whose key is flagged pending returns null, sends no
\* network call and leaves nothing behind that would execute it later.
C18_Dedup ==
  [][\A r \in Requests :
       (ExecuteRequest(r[1], r[2]) /\ pendingRequests[KeyOf(r[1], r[2])])
         => /\ apiLast'.ret = "null"
            /\ UNCHANGED <<calls, pendingRequests, sinceLastRequest>>]_vars

\* C18 witness: a fresh call has just been skipped as a duplicate while the
\* call of its key is waiting in its retry delay
C18_Witness ==
  /\ apiLast.op = "deduped"
  /\ \E c \in Slots : calls[c].st = "delay" /\ pendingRequests[calls[c].key]

\* C19: a call chain never sends more than maxRetries + 1 network calls, a
\* retry is sent when its delay is over, and the chain whose last attempt
\* failed has sent exactly maxRetries + 1, invokes onError, sets error and
\* returns null.
C19_RetriesExhausted ==
  [][\A c \in Slots :
       /\ calls'[c].sent <= maxRetries + 1
       /\ RetryFire(c) => calls[c].timer = 0
       /\ \A throws \in BOOLEAN :
            NetFailFinal(c, throws)
              => /\ calls[c].sent = maxRetries + 1
                 /\ apiLast'.onError
                 /\ apiError'
                 /\ apiLast'.ret = "null"]_vars

\* C20: a call chain whose attempt succeeds after k failed ones (k <= maxRetries)
\* returns the response, has sent k + 1 network calls and invokes no onError.
C20_SuccessAfterRetries ==
  [][\A c \in Slots :
       NetOk(c) => /\ apiLast'.ret = "response"
                   /\ ~apiLast'.onError
                   /\ apiLast'.failed = calls[c].failed
                   /\ calls[c].failed <= maxRetries
                   /\ calls[c].sent = calls[c].failed + 1
                   /\ UNCHANGED apiError]_vars

\* C20 witness: a call has just returned the response of its third attempt
C20_Witness ==
  /\ apiLast.op = "returned"
  /\ apiLast.ret = "response"
  /\ apiLast.failed = 2
  /\ ~apiLast.onError

\* C21: a retry always sends its network call, whatever the throttle window and
\* the pending flag of its key say; a fresh call inside the window or with the
\* flag set sends none.
C21_RetriesBypassChecks ==
  [][/\ \A c \in Slots :
          RetryFire(c) => /\ calls'[c].st = "inflight"
                          /\ calls'[c].sent = calls[c].sent + 1
                          /\ calls'[c].retryCount = calls[c].retryCount + 1
                          /\ apiLast'.op = "resent"
     /\ \A r \in Requests :
          LET key == KeyOf(r[1], r[2]) IN
          (ExecuteRequest(r[1], r[2])
             /\ (sinceLastRequest[key] < debounceTime \/ pendingRequests[key]))
            => apiLast'.ret = "null" /\ UNCHANGED calls]_vars

\* C21 witness: a retry has just been sent although its delay is shorter than
\* the throttle window (and the flag of its key was set: it is set throughout
\* the chain)
C21_Witness ==
  /\ apiLast.op = "resent"
  /\ retryDelay < debounceTime
  /\ \E c \in Slots : calls[c].st = "inflight" /\ calls[c].retryCount > 0

\* C22: when a call chain returns the response, or null after its last failed
\* attempt, the pending flag of its key is false (the dedup check, which reads
\* only that flag, lets the next fresh call of the key pass).
C22_PendingClearedOnReturn ==
  [][\A c \in Slots :
       ((NetOk(c) \/ \E throws \in BOOLEAN : NetFailFinal(c, throws))
          /\ apiLast'.ret \in {"response", "null"})
         => ~pendingRequests'[calls[c].key]]_vars

\* C22 witness: a call has just returned null after its last failed attempt
\* (at least one retry made) and no key is flagged pending
C22_Witness ==
  /\ apiLast.op = "returned"
  /\ apiLast.ret = "null"
  /\ apiLast.onError
  /\ apiLast.failed >= 2
  /\ \A k \in Keys : ~pendingRequests[k]

\* C23: a key is flagged pending only while a call chain of it is active:
\* however a chain ends, its flag is cleared.
C23_NoStuckPending == \A k \in Keys : pendingRequests[k] => Active(k)

\* C24: the urls /api/x and x give one key: a fresh call to either of them
\* inside the throttle window of the other, or while the other is flagged
\* pending, returns null and sends no network call.
C24_PrefixedAndBareCollapse ==
  [][\A u, v \in {ApiPrefix \o <<"x">>, <<"x">>} :
       (ExecuteRequest("get", u)
          /\ \/ sinceLastRequest[KeyOf("get", v)] < debounceTime
             \/ pendingRequests[KeyOf("get", v)])
         => apiLast'.ret = "null" /\ UNCHANGED calls]_vars

\* C27: a skipped fresh call returns null, invokes no onError, leaves error
\* null and leaves the pending flags and the last-request times of all keys
\* as they were.
C27_SkipHasNoEffect ==
  [][\A r \in Requests :
       (ExecuteRequest(r[1], r[2]) /\ Skips(KeyOf(r[1], r[2]), 0))
         => /\ apiLast'.ret = "null"
            /\ ~apiLast'.onError
            /\ ~apiError'
            /\ UNCHANGED <<pendingRequests, sinceLastRequest, calls>>]_vars

\* C27 witness: a fresh call has just been throttled while the call that
\* opened the window is still awaited
C27_Witness ==
  /\ apiLast.op = "throttled"
  /\ apiLast.ret = "null"
  /\ \E c \in Slots : calls[c].st = "inflight" /\ sinceLastRequest[calls[c].key] > 0

\* C25: the promise of every debounced call is eventually resolved, also the
\* promise of a call whose timer a later call to the same key cleared.
C25_AllPromisesResolve ==
  \A k \in Keys : (debounceTimers[k].dropped > 0) ~> (debounceTimers[k].dropped = 0)

\* C26: a debounced call sets the timer of its key to the full delay with its
\* own arguments, invokes no executeRequest and leaves the timers of the other
\* keys alone; executeRequest is invoked for a key only when its timer has run
\* the full delay since the last debounced call of the key, once (the timer is
\* gone afterwards) and with the arguments of that last call.
C26_LastCallWins ==
  [][/\ \A r \in Requests :
          LET key == KeyOf(r[1], r[2]) IN
          DebouncedCall(r[1], r[2])
            => /\ debounceTimers'[key].timer = debounceTime
               /\ debounceTimers'[key].args = r
               /\ \A k \in Keys \ {key} : debounceTimers'[k] = debounceTimers[k]
               /\ UNCHANGED <<calls, pendingRequests, sinceLastRequest>>
     /\ \A k \in Keys :
          /\ (debounceTimers[k].timer # 0 /\ apiLast'.debounced
                 /\ apiLast'.op \in {"sent", "throttled", "deduped"})
               => \E j \in Keys \ {k} : DebounceFire(j)
          /\ DebounceFire(k)
               => /\ debounceTimers[k].timer = 0
                  /\ executeRequest(debounceTimers[k].args[1],
                                    debounceTimers[k].args[2], TRUE)
                  /\ KeyOf(debounceTimers[k].args[1], debounceTimers[k].args[2]) = k
                  /\ debounceTimers'[k].timer = NoTimer
                  /\ \A j \in Keys \ {k} : debounceTimers'[j] = debounceTimers[j]]_vars

\* C26 witness: the single execution of a burst of calls to one key has just
\* been sent, with the arguments of the last call of the burst, while the timer
\* of the other key is still running
C26_Witness ==
  /\ apiLast.op = "sent"
  /\ apiLast.debounced
  /\ \E k \in Keys :
       /\ debounceTimers[k].timer = NoTimer
       /\ debounceTimers[k].dropped >= 1
       /\ debounceTimers[k].args = <<"get", <<"/", "x">> >>
       /\ \E c \in Slots : calls[c].st = "inflight" /\ calls[c].key = k
                             /\ calls[c].debounced
       /\ \E j \in Keys \ {k} : debounceTimers[j].timer > 0

\* C28: a download in flight at the abort deadline is aborted there: no call is
\* in progress past the deadline, and one in progress at the deadline has its
\* abort timer armed (and due).
C28_AbortedAtDeadline ==
  \A c \in Downloads :
    \/ c.age < AbortDeadline
    \/ c.age = AbortDeadline /\ c.armed

\* call c fails in this step
DownloadFails(c) ==
  ResponseBad(c) \/ NoBody(c) \/ FetchError(c) \/ AbortFire(c) \/ ReadError(c)

\* C29: when a download fails (status not ok, network error, timeout, no body
\* stream, error reading a chunk) nothing is handed to the save step, onError
\* is invoked, onSuccess is not, and the call returns false.
C29_NoFileOnFailure ==
  [][\A c \in Downloads :
       DownloadFails(c) => /\ ~dl'.last.saved
                           /\ dl'.last.bytes = 0
                           /\ dl'.last.onError
                           /\ ~dl'.last.onSuccess
                           /\ dl'.last.ret = "false"]_vars

\* C29 witness: a download has just failed reading a chunk after it had
\* received bytes, and nothing was saved
C29_Witness ==
  /\ dl.last.op = "stream"
  /\ dl.last.received > 0
  /\ dl.last.ret = "false"
  /\ ~dl.last.saved

\* C30: in the state in which a download call returns, with true or false,
\* progress is 0 and isDownloading is false.
C30_CleanupOnReturn ==
  [][(BagCardinality(dl'.calls) < BagCardinality(dl.calls)
        \/ dl'.last.ret \in {"true", "false"})
       => /\ BagCardinality(dl'.calls) = BagCardinality(dl.calls) - 1
          /\ dl'.last.ret \in {"true", "false"}
          /\ dl'.progress = 0
          /\ ~dl'.isDownloading]_vars

\* C30 witness: a download that had emitted a percentage has just returned
\* true, and progress is 0 and isDownloading false
C30_Witness ==
  /\ dl.last.ret = "true"
  /\ dl.last.emitted
  /\ dl.progress = 0
  /\ ~dl.isDownloading

----------------------------------------------------------------------------
(* Claims about stale answers, runaway polling and the shared flags *)

\* C36: the answer to a status check of an earlier polling loop, arriving while
\* a later loop is polling, has no effect on the later job: isWorking and
\* isLoading, the is-polling flag, the timers and the completion callback are
\* left as they are.
C36_StaleAnswerIgnored ==
  [][\A l \in Loops, first \in BOOLEAN :
       (l < nLoops /\ isPollingRef /\ StatusDone(l, first))
         => UNCHANGED <<isWorking, isLoading, isPollingRef, pollingIntervalRef,
                        interval, completionCallbackFiredRef, firedInCycle>>]_vars

\* C37: once the completion callback has fired, and until the next startTask,
\* startPolling or resetState re-arms it, no grace timer and no interval timer
\* is pending, so that no further status request can be issued.
C37_NoRunawayPolling ==
  completionCallbackFiredRef => LiveIntervals = {} /\ PendingGraces = {}

\* C39: isDownloading is true as long as at least one download call is in
\* progress.
C39_DownloadingWhileAnyInProgress ==
  BagCardinality(dl.calls) > 0 => dl.isDownloading

\* C40: isLoading is true whenever a request is in flight or a call chain is
\* waiting in its retry delay.
C40_LoadingWhileActive ==
  (\E c \in Slots : calls[c].st # "idle") => apiIsLoading

\* C32: for a download whose declared total is not zero the bytes received
\* never exceed the total, and the progress lies in 0..100.
C32_ReceivedWithinTotal ==
  /\ \A c \in Downloads : c.total > 0 => c.received <= c.total
  /\ dl.progress \in 0..100

----------------------------------------------------------------------------
(* Claims about one download: progress, payload, filename, URL *)

\* p is x rounded to the nearest integer, halves upwards, for x = 100 * r / t
IsRound(p, r, t) == 2 * p * t <= 200 * r + t /\ 200 * r + t < 2 * (p + 1) * t

\* C31: with a declared total above 0 the progress after each chunk is
\* round(received / total * 100), received being the bytes accumulated so far,
\* and it does not decrease; with total 0 no percentage is emitted: the
\* progress stays 0.
C31_ProgressPerChunk ==
  [][\A c \in Downloads, n \in 1..MaxPiece :
       ReadChunk(c, n)
         => IF c.total > 0
            THEN /\ IsRound(dl'.progress, c.received + n, c.total)
                 /\ dl'.progress >= dl.progress
            ELSE dl'.progress = 0 /\ dl.progress = 0]_vars

\* C31 witness: two chunks of one byte of a body declared 3 bytes long have
\* been read, and the progress is 67
C31_Witness ==
  /\ dl.last.op = "chunk"
  /\ dl.progress = 67
  /\ \E c \in Downloads : c.total = 3 /\ c.chunks = <<1, 1>>

RECURSIVE Concatenation(_, _)
\* the bytes of the chunks from the k-th on, one chunk after the other
Concatenation(chunks, k) ==
  IF k > Len(chunks) THEN <<>>
  ELSE ChunkBytes(k, chunks[k]) \o Concatenation(chunks, k + 1)

RECURSIVE SumFrom(_, _)
\* the sum of the lengths of the chunks from the k-th on
SumFrom(chunks, k) ==
  IF k > Len(chunks) THEN 0 ELSE chunks[k] + SumFrom(chunks, k + 1)

\* C33: when a download succeeds, what is handed to the save step is the
\* concatenation of the chunks in the order of their arrival, and its size is
\* the sum of their lengths, whatever total was declared.
C33_PayloadIsConcatenation ==
  [][\A c \in Downloads :
       ReadDone(c) => /\ dl'.last.saved
                      /\ dl'.last.ret = "true"
                      /\ dl'.last.payload = Concatenation(c.chunks, 1)
                      /\ Len(dl'.last.payload) = SumFrom(c.chunks, 1)
                      /\ dl'.last.bytes = SumFrom(c.chunks, 1)]_vars

\* C33 witness: a download declared 2 bytes long that received a chunk of 1
\* byte and then one of 2 bytes has just been saved with its 3 bytes in order
C33_Witness ==
  /\ dl.last.op = "done"
  /\ dl.last.saved
  /\ dl.last.total = 2
  /\ dl.last.payload = <<<<1, 1>>, <<2, 1>>, <<2, 2>>>>

\* the name the priority order gives: the extended parameter decoded if there
\* is one, else the quoted plain parameter if there is one, else the
\* fallback; the fallback also when the extended parameter does not decode
NameByPriority(h, fallback) ==
  IF h = NoDisposition THEN fallback
  ELSE IF ExtMatch(h).found
       THEN IF decodeURIComponent(ExtMatch(h).group).ok
            THEN decodeURIComponent(ExtMatch(h).group).value
            ELSE fallback
       ELSE IF PlainMatch(h).found THEN PlainMatch(h).group ELSE fallback

\* C34: whatever content-disposition header the response carries, the download
\* goes on, under the name the priority order gives (the fallback verbatim
\* when the header is absent, and when it cannot be parsed or decoded), and a
\* download that completes is saved under that name.
C34_FilenamePriority ==
  [][\A c \in Downloads :
       /\ \A total \in 0..MaxBody, h \in Dispositions :
            ResponseOk(c, total, h)
              => \A d \in BagToSet(dl'.calls) :
                   d.st = "reading" /\ d.filename = NameByPriority(h, c.filename)
       /\ ReadDone(c) => /\ dl'.last.ret = "true"
                         /\ dl'.last.saved
                         /\ dl'.last.filename = c.filename]_vars

\* C34 witness: a download whose header carried filename*=UTF-8''a%20b and
\* filename="c" has just been saved as "a b"
C34_Witness ==
  /\ dl.last.op = "done"
  /\ dl.last.saved
  /\ dl.last.filename = Str(<<"a", " ", "b">>)

RECURSIVE ApiPrefixes(_)
\* the number of /api prefixes url begins with
ApiPrefixes(url) ==
  IF StartsWith(url, ApiPrefix) \/ url = <<"/", "a", "p", "i">>
  THEN 1 + ApiPrefixes(SubSeq(url, 5, Len(url)))
  ELSE 0

\* C35: an absolute http(s) URL is fetched as it is; a relative URL is fetched
\* with exactly one /api prefix; resolving the fetched URL again gives the
\* same URL.
C35_UrlResolution ==
  [][\A url \in DownloadUrls :
       StartDownload(url)
         => /\ IsAbsolute(url) => dl'.last.url = url
            /\ ~IsAbsolute(url) => ApiPrefixes(dl'.last.url) = 1
            /\ FinalUrl(dl'.last.url) = dl'.last.url]_vars

----------------------------------------------------------------------------
(* Claim about the call chains of one RequestKey *)

\* no two call chains with the same key, as getDebounceKey computes it, are
\* active
OneChainPerKey ==
  \A c, d \in Slots :
    (calls[c].st # "idle" /\ calls[d].st # "idle" /\ calls[c].key = calls[d].key)
      => c = d

\* C38: per RequestKey at most one call chain is active and at most one
\* request is in flight: no two chains with one key are active, and, /api/x
\* and x being one RequestKey, no request for /api/x is sent while a chain
\* for x is active.
C38_OneChainPerRequestKey ==
  /\ []OneChainPerKey
  /\ [][(ExecuteRequest("get", ApiPrefix \o <<"x">>) /\ apiLast'.op = "sent")
          => ~Active(KeyOf("get", <<"x">>))]_vars

====
